---- MODULE Spec2Model ----
(***************************************************************************)
(* rollrus: a logrus.Hook that forwards log entries to a Rollbar client.   *)
(*                                                                         *)
(* The model covers the Hook struct and its construction (NewHook,         *)
(* NewHookForLevels, the OptionFuncs), Levels, Fire with its helpers       *)
(* extractError / convertFields / report / framesToSkip, and ReportPanic.  *)
(*                                                                         *)
(* Go values are records [kind, id, text]: kind is the dynamic type class  *)
(* the code switches on, id the identity used by ==, text the payload a    *)
(* conversion reads. Strings are sequences of one-character strings, so    *)
(* that fmt formatting is computed and not assumed.                        *)
(***************************************************************************)
EXTENDS Integers, Sequences, FiniteSets, TLC

VARIABLES
    hook,          \* the Hook struct shared by all goroutines
    built,         \* TRUE once a constructor has returned the hook
    levelsResult,  \* what the last Levels() call returned
    pc,            \* per goroutine: position inside Fire / ReportPanic
    entry,         \* per goroutine: the *logrus.Entry passed to Fire
    stack,         \* per goroutine: packages of the frames that called Fire
    cause,         \* per goroutine: local `cause` of Fire
    m,             \* per goroutine: local `m` of Fire
    trace,         \* per goroutine: filters consulted and client calls made
    ret,           \* per goroutine: how the running call ended
    acc,           \* per goroutine: Hook fields accessed by the running call
    inflight,      \* per goroutine: the panic unwinding when ReportPanic ran
    fk,            \* framesToSkip: argument rollrusSkip
    fstack,        \* framesToSkip: the goroutine's call stack, innermost first
    fresult        \* framesToSkip: returned value

vars == <<hook, built, levelsResult, pc, entry, stack, cause, m, trace, ret,
          acc, inflight, fk, fstack, fresult>>

hookVars == <<hook, built, levelsResult>>
fireVars == <<pc, entry, stack, cause, m, trace, ret, acc, inflight>>
frameVars == <<fk, fstack, fresult>>

----------------------------------------------------------------------------
(* Bounds of the model *)

MaxMsgLen == 2      \* longest entry.Message, in characters
MaxOpts == 2        \* most OptionFuncs passed to NewHook
MaxStack == 7       \* deepest call stack handed to framesToSkip
MaxSkip == 3        \* largest rollrusSkip handed to framesToSkip

----------------------------------------------------------------------------
(* Go values *)

NilValue == [kind |-> "nil", id |-> "nil", text |-> <<>>]

E1 == [kind |-> "error", id |-> "E1", text |-> <<"x">>]
E2 == [kind |-> "error", id |-> "E2", text |-> <<"y">>]
T1 == [kind |-> "time", id |-> "T1", text |-> <<>>]
T0 == [kind |-> "time", id |-> "T0", text |-> <<>>]
S1 == [kind |-> "stringer", id |-> "S1", text |-> <<"s">>]

\* characters of a log message: a plain one and the formatting directive
MsgChars == {"b", "%"}

Messages == UNION {[1..n -> MsgChars] : n \in 0..MaxMsgLen}

EmptyMap == [k \in {} |-> <<>>]

\* a slice is nil or holds elements; the two are told apart by `== nil`
NilSlice == [isNil |-> TRUE, elems |-> <<>>]

Slice(s) == [isNil |-> FALSE, elems |-> s]

----------------------------------------------------------------------------
(* logrus levels *)

AllLevels == <<"panic", "fatal", "error", "warning", "info", "debug", "trace">>

LevelNum(l) == CHOOSE i \in 1..Len(AllLevels) : AllLevels[i] = l

defaultTriggerLevels == Slice(<<"error", "fatal", "panic">>)

wellKnownErrorFields == <<"error", "err">>

----------------------------------------------------------------------------
(* The Hook and its construction *)

\* caller-supplied predicates, named; "never" is the constructor's default
ignoreErrorFunc(fn, err) ==
    CASE fn = "never" -> FALSE
      [] fn = "isE1" -> err = E1

ignoreFunc(fn, err, fields) ==
    CASE fn = "never" -> FALSE
      [] fn = "lacksMsg" -> "msg" \notin DOMAIN fields

Option(op, levels, errs, fn) ==
    [op |-> op, levels |-> levels, errs |-> errs, fn |-> fn]

WithLevels(levels) == Option("WithLevels", levels, <<>>, "")

WithMinLevel(level) ==
    LET levels == SelectSeq(AllLevels, LAMBDA l : LevelNum(l) <= LevelNum(level))
    IN  Option("WithLevels", IF levels = <<>> THEN NilSlice ELSE Slice(levels),
               <<>>, "")

WithIgnoredErrors(errors) == Option("WithIgnoredErrors", NilSlice, errors, "")

WithIgnoreErrorFunc(fn) == Option("WithIgnoreErrorFunc", NilSlice, <<>>, fn)

WithIgnoreFunc(fn) == Option("WithIgnoreFunc", NilSlice, <<>>, fn)

\* o(h): the closure an OptionFunc returns, applied to the hook
ApplyOption(h, o) ==
    CASE o.op = "WithLevels" -> [h EXCEPT !.triggers = o.levels]
      [] o.op = "WithIgnoredErrors" ->
            [h EXCEPT !.ignoredErrors = h.ignoredErrors \o o.errs]
      [] o.op = "WithIgnoreErrorFunc" -> [h EXCEPT !.ignoreErrorFunc = o.fn]
      [] o.op = "WithIgnoreFunc" -> [h EXCEPT !.ignoreFunc = o.fn]

NewHookForLevels(levels) ==
    [triggers |-> levels,
     ignoredErrors |-> <<>>,
     ignoreErrorFunc |-> "never",
     ignoreFunc |-> "never",
     reported |-> FALSE]

RECURSIVE ApplyOptions(_, _)
ApplyOptions(h, opts) ==
    IF opts = <<>> THEN h
    ELSE ApplyOptions(ApplyOption(h, Head(opts)), Tail(opts))

NewHook(opts) == ApplyOptions(NewHookForLevels(defaultTriggerLevels), opts)

LevelsNoDefault(h) == h.triggers

Levels(h) == IF h.triggers.isNil THEN defaultTriggerLevels ELSE h.triggers

\* level lists a caller passes to NewHookForLevels or WithLevels
LevelLists ==
    {NilSlice, Slice(<<>>), Slice(<<"error">>), Slice(<<"trace">>),
     Slice(<<"warning", "info", "debug", "trace">>)}

FilterOptions ==
    {WithIgnoredErrors(<<E1>>), WithIgnoreErrorFunc("isE1"),
     WithIgnoreFunc("lacksMsg")}

LevelOptions ==
    {WithLevels(l) : l \in LevelLists}
        \cup {WithMinLevel(AllLevels[i]) : i \in 1..Len(AllLevels)}

OptionLists(S) == UNION {[1..n -> S] : n \in 0..MaxOpts}

NoLevels == [called |-> FALSE, value |-> NilSlice]

----------------------------------------------------------------------------
(* fmt and time formatting *)

\* fmt.Sprintf(format) with no operands: text is copied, "%%" gives "%",
\* "%" and a verb gives "%!verb(MISSING)", a trailing "%" gives "%!(NOVERB)"
RECURSIVE Sprintf(_)
Sprintf(format) ==
    IF format = <<>> THEN <<>>
    ELSE IF Head(format) # "%" THEN <<Head(format)>> \o Sprintf(Tail(format))
    ELSE IF Len(format) = 1 THEN <<"%", "!", "(", "N", "O", "V", "E", "R", "B", ")">>
    ELSE IF format[2] = "%" THEN <<"%">> \o Sprintf(SubSeq(format, 3, Len(format)))
    ELSE <<"%", "!", format[2], "(", "M", "I", "S", "S", "I", "N", "G", ")">>
             \o Sprintf(SubSeq(format, 3, Len(format)))

\* fmt.Errorf(format): a freshly allocated error, equal to no caller-held error
Errorf(format) == [kind |-> "error", id |-> "fmt", text |-> Sprintf(format)]

\* t.Format(time.RFC3339)
RFC3339(t) == <<"rfc3339", t.id>>

\* fmt.Sprintf("%+v", v) for the values that reach the default branch
SprintPlusV(v) == IF v.kind = "nil" THEN <<"<", "n", "i", "l", ">">> ELSE v.text

\* fmt.Sprintf("%q", v)
SprintQ(v) == <<"\"">> \o v.text \o <<"\"">>

----------------------------------------------------------------------------
(* Helpers of Fire *)

RECURSIVE extractFrom(_, _, _)
extractFrom(e, fields, i) ==
    IF i > Len(fields) THEN Errorf(e.Message)
    ELSE IF fields[i] \notin DOMAIN e.Data THEN extractFrom(e, fields, i + 1)
    ELSE IF e.Data[fields[i]].kind # "error" THEN extractFrom(e, fields, i + 1)
    ELSE e.Data[fields[i]]

extractErrorReversed(e) == extractFrom(e, <<"err", "error">>, 1)

extractError(e) == extractFrom(e, wellKnownErrorFields, 1)

convertValue(v) ==
    CASE v.kind = "time" -> RFC3339(v)
      [] v.kind = "error" -> v.text
      [] v.kind = "stringer" -> v.text
      [] OTHER -> SprintPlusV(v)

convertFields(fields) == [k \in DOMAIN fields |-> convertValue(fields[k])]

Put(map, k, v) == [x \in DOMAIN map \cup {k} |-> IF x = k THEN v ELSE map[x]]

fireFieldsOverwrite(e) ==
    Put(Put(convertFields(e.Data), "time", RFC3339(e.Time)), "msg", e.Message)

\* lines 188-195 of Fire: the map handed to ignoreFunc and to report
fireFields(e) ==
    LET m0 == convertFields(e.Data)
        m1 == IF "time" \notin DOMAIN m0 THEN Put(m0, "time", RFC3339(e.Time)) ELSE m0
    IN  IF "msg" \notin DOMAIN m1 /\ e.Message # <<>>
        THEN Put(m1, "msg", e.Message)
        ELSE m1

RECURSIVE walkFrames(_, _)
\* the loop of framesToSkip: frame i is st[i + 1]; runtime.Caller(i) is ok
\* while i < Len(st)
walkFrames(st, i) ==
    IF i >= Len(st) \/ st[i + 1] # "logrus" THEN i ELSE walkFrames(st, i + 1)

framesToSkipNoOwnFrame(rollrusSkip, st) == walkFrames(st, rollrusSkip) + 2 - 1

framesToSkip(rollrusSkip, st) == walkFrames(st, rollrusSkip + 1) + 2 - 1

Event(ev, level, err, skip, msg, extras, result) ==
    [ev |-> ev, level |-> level, err |-> err, skip |-> skip, msg |-> msg,
     extras |-> extras, result |-> result]

Consult(filter, matched) == Event(filter, "", NilValue, 0, <<>>, EmptyMap, matched)

ErrorWithStackSkipWithExtras(level, err, skip, extras, ok) ==
    Event("ErrorWithStackSkipWithExtras", level, err, skip, <<>>, extras, ok)

MessageWithExtras(level, msg, extras, ok) ==
    Event("MessageWithExtras", level, NilValue, 0, msg, extras, ok)

ErrorWithLevel(level, err, ok) ==
    Event("ErrorWithLevel", level, err, 0, <<>>, EmptyMap, ok)

\* the frames framesToSkip sees when report calls it from Fire
reportStack(callers) == <<"rollrus", "rollrus", "rollrus">> \o callers

reportWarnAsMessage(e, err, fields, callers, ok) ==
    LET skip == framesToSkip(2, reportStack(callers))
    IN  CASE e.Level \in {"fatal", "panic"} ->
                <<ErrorWithStackSkipWithExtras("CRIT", err, skip, fields, ok)>>
          [] e.Level = "error" ->
                <<ErrorWithStackSkipWithExtras("ERR", err, skip, fields, ok)>>
          [] e.Level = "warning" -> <<MessageWithExtras("WARN", e.Message, fields, ok)>>
          [] e.Level = "info" -> <<MessageWithExtras("INFO", e.Message, fields, ok)>>
          [] e.Level = "debug" -> <<MessageWithExtras("DEBUG", e.Message, fields, ok)>>
          [] OTHER -> <<>>

\* the client calls made by report, in order
report(e, err, fields, callers, ok) ==
    LET skip == framesToSkip(2, reportStack(callers))
    IN  CASE e.Level \in {"fatal", "panic"} ->
                <<ErrorWithStackSkipWithExtras("CRIT", err, skip, fields, ok)>>
          [] e.Level = "error" ->
                <<ErrorWithStackSkipWithExtras("ERR", err, skip, fields, ok)>>
          [] e.Level = "warning" ->
                <<ErrorWithStackSkipWithExtras("WARN", err, skip, fields, ok)>>
          [] e.Level = "info" -> <<MessageWithExtras("INFO", e.Message, fields, ok)>>
          [] e.Level = "debug" -> <<MessageWithExtras("DEBUG", e.Message, fields, ok)>>
          [] OTHER -> <<>>

nextPcNoShortCircuit(stage, matched) ==
    CASE stage = "ignoredErrors" -> "ignoreErrorFunc"
      [] stage = "ignoreErrorFunc" -> "ignoreFunc"
      [] stage = "ignoreFunc" -> "report"

\* where Fire goes after a filter: `return nil` on a match, else the next
\* statement
nextPc(stage, matched) ==
    IF matched THEN "return"
    ELSE CASE stage = "ignoredErrors" -> "ignoreErrorFunc"
           [] stage = "ignoreErrorFunc" -> "ignoreFunc"
           [] stage = "ignoreFunc" -> "report"

Returned(v) == [kind |-> "return", value |-> v]

Panicked(v) == [kind |-> "panic", value |-> v]

fireResultFromClient(calls) ==
    IF \E i \in 1..Len(calls) : ~calls[i].result
    THEN Returned(Errorf(<<"b">>))
    ELSE Returned(NilValue)

\* Fire's result after report: `return nil`, whatever the client did
fireResult(calls) == Returned(NilValue)

----------------------------------------------------------------------------
(* Inputs of Fire *)

Keys == {"error", "err", "time", "msg"}

DataValues(k) ==
    CASE k = "error" -> {E1, NilValue}
      [] k = "err" -> {E2}
      [] k = "time" -> {T1}
      [] k = "msg" -> {S1}

DataMaps ==
    UNION {{f \in [S -> {E1, E2, NilValue, T1, S1}] :
                \A k \in S : f[k] \in DataValues(k)} : S \in SUBSET Keys}

Entries ==
    {[Level |-> AllLevels[i], Message |-> msg, Time |-> T0, Data |-> d] :
        i \in 1..Len(AllLevels), msg \in Messages, d \in DataMaps}

\* frames above Fire: logrus' own, then the application's
CallerStacks == {<<"logrus", "logrus", "logrus", "user">>}

----------------------------------------------------------------------------
(* Construction and Levels as operations *)

Procs == {1, 2}

IdleEntry == [Level |-> "panic", Message |-> <<>>, Time |-> T0, Data |-> EmptyMap]

IdleRet == [kind |-> "none", value |-> NilValue]

\* no panic is unwinding: recover() has nothing to return
NoPanic == [value |-> NilValue, deferred |-> FALSE]

FireIdle ==
    /\ pc = [g \in Procs |-> "idle"]
    /\ entry = [g \in Procs |-> IdleEntry]
    /\ stack = [g \in Procs |-> <<>>]
    /\ cause = [g \in Procs |-> NilValue]
    /\ m = [g \in Procs |-> EmptyMap]
    /\ trace = [g \in Procs |-> <<>>]
    /\ ret = [g \in Procs |-> IdleRet]
    /\ acc = [g \in Procs |-> {}]
    /\ inflight = [g \in Procs |-> NoPanic]

FramesIdle ==
    /\ fk = 0
    /\ fstack = <<>>
    /\ fresult = -1

CallNewHook(opts) ==
    /\ hook' = NewHook(opts)
    /\ built' = TRUE
    /\ levelsResult' = NoLevels
    /\ UNCHANGED <<fireVars, frameVars>>

CallNewHookForLevels(levels) ==
    /\ hook' = NewHookForLevels(levels)
    /\ built' = TRUE
    /\ levelsResult' = NoLevels
    /\ UNCHANGED <<fireVars, frameVars>>

CallLevels ==
    /\ built
    /\ ~levelsResult.called
    /\ levelsResult' = [called |-> TRUE, value |-> Levels(hook)]
    /\ UNCHANGED <<hook, built, fireVars, frameVars>>

InitConfig ==
    /\ hook = NewHookForLevels(NilSlice)
    /\ built = FALSE
    /\ levelsResult = NoLevels
    /\ FireIdle
    /\ FramesIdle

NextConfig ==
    \/ \E opts \in OptionLists(LevelOptions \cup FilterOptions) : CallNewHook(opts)
    \/ \E levels \in LevelLists : CallNewHookForLevels(levels)
    \/ CallLevels

SpecConfig == InitConfig /\ [][NextConfig]_vars

----------------------------------------------------------------------------
(* Fire, one statement that touches the Hook per step *)

Touch(g, field, mode) == [acc EXCEPT ![g] = @ \cup {<<field, mode>>}]

FireEnter(g, e, callers) ==
    /\ built
    /\ pc[g] = "idle"
    /\ pc' = [pc EXCEPT ![g] = "ignoredErrors"]
    /\ entry' = [entry EXCEPT ![g] = e]
    /\ stack' = [stack EXCEPT ![g] = callers]
    /\ cause' = [cause EXCEPT ![g] = extractError(e)]
    /\ UNCHANGED <<m, trace, ret, acc, inflight, hookVars, frameVars>>

FireIgnoredErrors(g) ==
    /\ pc[g] = "ignoredErrors"
    /\ LET matched == \E i \in 1..Len(hook.ignoredErrors) :
                          hook.ignoredErrors[i] = cause[g]
       IN  /\ trace' = [trace EXCEPT ![g] = Append(@, Consult("ignoredErrors", matched))]
           /\ pc' = [pc EXCEPT ![g] = nextPc("ignoredErrors", matched)]
           /\ ret' = [ret EXCEPT ![g] = IF matched THEN Returned(NilValue) ELSE @]
    /\ acc' = Touch(g, "ignoredErrors", "r")
    /\ UNCHANGED <<entry, stack, cause, m, inflight, hookVars, frameVars>>

FireIgnoreErrorFunc(g) ==
    /\ pc[g] = "ignoreErrorFunc"
    /\ LET matched == ignoreErrorFunc(hook.ignoreErrorFunc, cause[g])
       IN  /\ trace' = [trace EXCEPT ![g] = Append(@, Consult("ignoreErrorFunc", matched))]
           /\ pc' = [pc EXCEPT ![g] = nextPc("ignoreErrorFunc", matched)]
           /\ ret' = [ret EXCEPT ![g] = IF matched THEN Returned(NilValue) ELSE @]
           /\ m' = [m EXCEPT ![g] = IF matched THEN @ ELSE fireFields(entry[g])]
    /\ acc' = Touch(g, "ignoreErrorFunc", "r")
    /\ UNCHANGED <<entry, stack, cause, inflight, hookVars, frameVars>>

FireIgnoreFunc(g) ==
    /\ pc[g] = "ignoreFunc"
    /\ LET matched == ignoreFunc(hook.ignoreFunc, cause[g], m[g])
       IN  /\ trace' = [trace EXCEPT ![g] =
                           Append(@, Event("ignoreFunc", "", cause[g], 0, <<>>,
                                           m[g], matched))]
           /\ pc' = [pc EXCEPT ![g] = nextPc("ignoreFunc", matched)]
           /\ ret' = [ret EXCEPT ![g] = IF matched THEN Returned(NilValue) ELSE @]
    /\ acc' = Touch(g, "ignoreFunc", "r")
    /\ UNCHANGED <<entry, stack, cause, m, inflight, hookVars, frameVars>>

\* r.report(entry, cause, m) and the `return nil` after it; ok is whether the
\* client delivered the report, which the client keeps to itself
FireReport(g) ==
    /\ pc[g] = "report"
    /\ hook' = [hook EXCEPT !.reported = TRUE]
    /\ \E ok \in BOOLEAN :
          LET calls == report(entry[g], cause[g], m[g], stack[g], ok)
          IN  /\ trace' = [trace EXCEPT ![g] = @ \o calls]
              /\ ret' = [ret EXCEPT ![g] = fireResult(calls)]
    /\ acc' = [acc EXCEPT ![g] = @ \cup {<<"reported", "w">>, <<"Client", "r">>}]
    /\ pc' = [pc EXCEPT ![g] = "return"]
    /\ UNCHANGED <<entry, stack, cause, m, inflight, built, levelsResult, frameVars>>

\* the call is over: its locals are gone
Return(g) ==
    /\ pc[g] \in {"return", "unwound"}
    /\ pc' = [pc EXCEPT ![g] = "idle"]
    /\ entry' = [entry EXCEPT ![g] = IdleEntry]
    /\ stack' = [stack EXCEPT ![g] = <<>>]
    /\ cause' = [cause EXCEPT ![g] = NilValue]
    /\ m' = [m EXCEPT ![g] = EmptyMap]
    /\ trace' = [trace EXCEPT ![g] = <<>>]
    /\ ret' = [ret EXCEPT ![g] = IdleRet]
    /\ acc' = [acc EXCEPT ![g] = {}]
    /\ inflight' = [inflight EXCEPT ![g] = NoPanic]
    /\ UNCHANGED <<hookVars, frameVars>>

----------------------------------------------------------------------------
(* ReportPanic *)

\* recover(): the value of the panic in flight, and nil when there is none or
\* when the caller is not the deferred function itself
recover(unwinding, deferred) == IF deferred THEN unwinding ELSE NilValue

PanicError(p) ==
    [kind |-> "error", id |-> "fmt",
     text |-> <<"p", "a", "n", "i", "c", ":", " ">> \o SprintQ(p)]

\* how the deferred call leaves the goroutine: a recovered panic is raised
\* again, a panic that was not recovered keeps unwinding
hookReportPanicSwallow(unwinding, deferred, ok) ==
    LET p == recover(unwinding, deferred)
    IN  IF p # NilValue
        THEN [calls |-> <<ErrorWithLevel("CRIT", PanicError(p), ok)>>,
              ret |-> Returned(NilValue)]
        ELSE [calls |-> <<>>,
              ret |-> IF unwinding # NilValue THEN Panicked(unwinding)
                      ELSE Returned(NilValue)]

hookReportPanic(unwinding, deferred, ok) ==
    LET p == recover(unwinding, deferred)
    IN  IF p # NilValue
        THEN [calls |-> <<ErrorWithLevel("CRIT", PanicError(p), ok)>>,
              ret |-> Panicked(p)]
        ELSE [calls |-> <<>>,
              ret |-> IF unwinding # NilValue THEN Panicked(unwinding)
                      ELSE Returned(NilValue)]

\* values a goroutine panics with, all non-nil (panic(nil) raises a non-nil
\* *runtime.PanicNilError); NilValue stands for no panic in flight
PanicValues == {E1, S1}

\* `defer hook.ReportPanic()` while the goroutine panics with p, or returns
\* normally when p is NilValue
HookReportPanic(g, p) ==
    /\ built
    /\ pc[g] = "idle"
    /\ \E ok \in BOOLEAN :
          LET out == hookReportPanic(p, TRUE, ok)
          IN  /\ trace' = [trace EXCEPT ![g] = out.calls]
              /\ ret' = [ret EXCEPT ![g] = out.ret]
              /\ acc' = IF out.calls # <<>> THEN Touch(g, "Client", "r") ELSE acc
    /\ inflight' = [inflight EXCEPT ![g] = [value |-> p, deferred |-> TRUE]]
    /\ pc' = [pc EXCEPT ![g] = "unwound"]
    /\ UNCHANGED <<entry, stack, cause, m, hookVars, frameVars>>

\* `defer rollrus.ReportPanic(token, env)`: the method runs one call below the
\* deferred function, on a Hook of its own
ReportPanic(g, token, p) ==
    /\ pc[g] = "idle"
    /\ \E ok \in BOOLEAN :
          LET out == IF token # <<>>
                     THEN hookReportPanic(p, FALSE, ok)
                     ELSE [calls |-> <<>>,
                           ret |-> IF p # NilValue THEN Panicked(p)
                                   ELSE Returned(NilValue)]
          IN  /\ trace' = [trace EXCEPT ![g] = out.calls]
              /\ ret' = [ret EXCEPT ![g] = out.ret]
    /\ inflight' = [inflight EXCEPT ![g] = [value |-> p, deferred |-> FALSE]]
    /\ pc' = [pc EXCEPT ![g] = "unwound"]
    /\ UNCHANGED <<entry, stack, cause, m, acc, hookVars, frameVars>>

----------------------------------------------------------------------------
(* The hook in use by one goroutine *)

Init ==
    /\ hook \in {NewHook(opts) : opts \in OptionLists(FilterOptions)}
    /\ built = TRUE
    /\ levelsResult = NoLevels
    /\ FireIdle
    /\ FramesIdle

Step(g, entries) ==
    \/ \E e \in entries, callers \in CallerStacks : FireEnter(g, e, callers)
    \/ FireIgnoredErrors(g)
    \/ FireIgnoreErrorFunc(g)
    \/ FireIgnoreFunc(g)
    \/ FireReport(g)
    \/ Return(g)
    \/ \E p \in PanicValues \cup {NilValue} : HookReportPanic(g, p)
    \/ \E p \in PanicValues \cup {NilValue}, token \in {<<>>, <<"t">>} :
          ReportPanic(g, token, p)

Next == Step(1, Entries)

Spec == Init /\ [][Next]_vars

----------------------------------------------------------------------------
(* The hook in use by two goroutines at once *)

ConcEntries ==
    {e \in Entries : /\ e.Level \in {"error", "info", "trace"}
                     /\ e.Message = <<"b">>
                     /\ DOMAIN e.Data \subseteq {"error"}}

NextConc == \E g \in Procs : Step(g, ConcEntries)

SpecConc == Init /\ [][NextConc]_vars

----------------------------------------------------------------------------
(* framesToSkip on its own *)

Packages == {"rollrus", "logrus", "user"}

\* a goroutine's stack while framesToSkip runs: frame 0 is framesToSkip itself
Stacks == {<<"rollrus">> \o s : s \in UNION {[1..n -> Packages] : n \in 0..(MaxStack - 1)}}

InitFrames ==
    /\ hook = NewHook(<<>>)
    /\ built = TRUE
    /\ levelsResult = NoLevels
    /\ FireIdle
    /\ fk \in 0..MaxSkip
    /\ fstack \in Stacks
    /\ fresult = -1

CallFramesToSkip ==
    /\ fresult = -1
    /\ fresult' = framesToSkip(fk, fstack)
    /\ UNCHANGED <<fk, fstack, hookVars, fireVars>>

NextFrames == CallFramesToSkip

SpecFrames == InitFrames /\ [][NextFrames]_vars

----------------------------------------------------------------------------
(* Properties *)

InFire(g) == pc[g] \in {"ignoredErrors", "ignoreErrorFunc", "ignoreFunc", "report", "return"}

Filters == {"ignoredErrors", "ignoreErrorFunc", "ignoreFunc"}

ClientMethods == {"ErrorWithStackSkipWithExtras", "MessageWithExtras", "ErrorWithLevel"}

ClientCalls(g) == SelectSeq(trace[g], LAMBDA ev : ev.ev \in ClientMethods)

Consulted(g) == SelectSeq(trace[g], LAMBDA ev : ev.ev \in Filters)

Suppressed(g) == \E i \in 1..Len(trace[g]) : trace[g][i].ev \in Filters /\ trace[g][i].result

IsStackReport(calls, level) ==
    /\ Len(calls) = 1
    /\ calls[1].ev = "ErrorWithStackSkipWithExtras"
    /\ calls[1].level = level

IsMessageReport(calls, level) ==
    /\ Len(calls) = 1
    /\ calls[1].ev = "MessageWithExtras"
    /\ calls[1].level = level

\* C1: a Fire call that no filter suppressed has made, by the time it returns,
\* the client calls its entry's level fixes: one stack-trace report at CRIT for
\* fatal and panic, at ERR for error, at WARN for warning; one message-only
\* report at INFO for info, at DEBUG for debug; none for any other level.
C1_ReportsByLevel ==
    \A g \in Procs :
        (pc[g] = "return" /\ ~Suppressed(g)) =>
            LET calls == ClientCalls(g)
                level == entry[g].Level
            IN  /\ level \in {"fatal", "panic"} => IsStackReport(calls, "CRIT")
                /\ level = "error" => IsStackReport(calls, "ERR")
                /\ level = "warning" => IsStackReport(calls, "WARN")
                /\ level = "info" => IsMessageReport(calls, "INFO")
                /\ level = "debug" => IsMessageReport(calls, "DEBUG")
                /\ level = "trace" => calls = <<>>

C1_Witness ==
    /\ pc[1] = "return"
    /\ ~Suppressed(1)
    /\ entry[1].Level = "warning"
    /\ Len(ClientCalls(1)) = 1

IsPrefix(s, t) == Len(s) <= Len(t) /\ SubSeq(t, 1, Len(s)) = s

\* C2: inside Fire the filters are consulted in the order ignoredErrors,
\* ignoreErrorFunc, ignoreFunc; a filter that matches is the last thing the
\* call does (no later filter, no client call); and when the cause equals an
\* entry of the ignore-list, the list is the only filter consulted and nothing
\* is reported.
C2_FilterOrder ==
    \A g \in Procs :
        InFire(g) =>
            /\ IsPrefix([i \in 1..Len(Consulted(g)) |-> Consulted(g)[i].ev],
                        <<"ignoredErrors", "ignoreErrorFunc", "ignoreFunc">>)
            /\ \A i \in 1..Len(trace[g]) :
                  (trace[g][i].ev \in Filters /\ trace[g][i].result) => i = Len(trace[g])
            /\ \A i \in 1..Len(trace[g]) :
                  trace[g][i].ev \in ClientMethods =>
                      /\ Len(Consulted(g)) = 3
                      /\ \A j \in 1..Len(trace[g]) : trace[g][j].ev \in Filters => j < i
            /\ ((\E i \in 1..Len(hook.ignoredErrors) : hook.ignoredErrors[i] = cause[g])
                    /\ trace[g] # <<>>)
                  => trace[g] = <<Consult("ignoredErrors", TRUE)>>

C2_Witness ==
    /\ pc[1] = "return"
    /\ cause[1] = E1
    /\ hook.ignoredErrors = <<E1>>
    /\ hook.ignoreErrorFunc = "isE1"
    /\ trace[1] = <<Consult("ignoredErrors", TRUE)>>

HoldsError(e, k) == k \in DOMAIN e.Data /\ e.Data[k].kind = "error"

\* C3: when the entry's Data holds an error under "error" or "err", the cause
\* Fire extracts is the error under "error" if that key holds an error, and
\* otherwise the error under "err".
C3_CauseFromField ==
    \A g \in Procs :
        InFire(g) =>
            /\ HoldsError(entry[g], "error") => cause[g] = entry[g].Data["error"]
            /\ (~HoldsError(entry[g], "error") /\ HoldsError(entry[g], "err"))
                  => cause[g] = entry[g].Data["err"]

C3_Witness ==
    /\ InFire(1)
    /\ "error" \in DOMAIN entry[1].Data
    /\ entry[1].Data["error"] = NilValue
    /\ HoldsError(entry[1], "err")
    /\ cause[1] = E2

\* C4: when no well-known key holds an error, the cause is a non-nil error
\* whose description is the entry's message text, whatever the text.
C4_CauseIsMessage ==
    \A g \in Procs :
        (InFire(g) /\ ~HoldsError(entry[g], "error") /\ ~HoldsError(entry[g], "err"))
            => /\ cause[g].kind = "error"
               /\ cause[g].text = entry[g].Message

\* the field maps a Fire call has handed to ignoreFunc or to the client
Handed(g) ==
    {trace[g][i].extras : i \in {j \in 1..Len(trace[g]) :
        trace[g][j].ev \in {"ignoreFunc", "ErrorWithStackSkipWithExtras",
                            "MessageWithExtras"}}}

KeepsOrInjects(g, f, k, injected) ==
    /\ k \in DOMAIN entry[g].Data => f[k] = convertValue(entry[g].Data[k])
    /\ k \notin DOMAIN entry[g].Data => f[k] = injected

\* C5 as claimed: every map Fire hands to ignoreFunc or to the client has both
\* a time and a msg key, each holding the caller's normalized value when Data
\* supplies the key, and the entry's timestamp or message when it does not.
C5_TimeAndMsgAlways ==
    \A g \in Procs :
        InFire(g) =>
            \A f \in Handed(g) :
                /\ {"time", "msg"} \subseteq DOMAIN f
                /\ KeepsOrInjects(g, f, "time", RFC3339(entry[g].Time))
                /\ KeepsOrInjects(g, f, "msg", entry[g].Message)

\* C5 amended: every such map has a time key; it has a msg key exactly when
\* Data supplies msg or the entry's message is not empty; a key Data supplies
\* holds the caller's normalized value, and an injected key holds the entry's
\* timestamp or message.
C5_TimeAlwaysMsgUnlessEmpty ==
    \A g \in Procs :
        InFire(g) =>
            \A f \in Handed(g) :
                /\ "time" \in DOMAIN f
                /\ KeepsOrInjects(g, f, "time", RFC3339(entry[g].Time))
                /\ "msg" \in DOMAIN f <=>
                      ("msg" \in DOMAIN entry[g].Data \/ entry[g].Message # <<>>)
                /\ "msg" \in DOMAIN f => KeepsOrInjects(g, f, "msg", entry[g].Message)

C5_Witness ==
    /\ pc[1] = "return"
    /\ "time" \in DOMAIN entry[1].Data
    /\ "msg" \notin DOMAIN entry[1].Data
    /\ entry[1].Message = <<"b">>
    /\ \E f \in Handed(1) : f["time"] = <<"rfc3339", "T1">> /\ f["msg"] = <<"b">>
    /\ Len(ClientCalls(1)) = 1

\* C6 as claimed: whatever level list and options built the hook, Levels()
\* returns at least one level.
C6_LevelsNonEmpty ==
    levelsResult.called => levelsResult.value.elems # <<>>

\* C6 amended: Levels() returns the default {error, fatal, panic} when the
\* triggers are nil and the configured list, unchanged, when they are not; the
\* result is empty only when an empty, non-nil list was configured.
C6_LevelsDefaultWhenNil ==
    levelsResult.called =>
        /\ hook.triggers.isNil =>
              levelsResult.value = Slice(<<"error", "fatal", "panic">>)
        /\ ~hook.triggers.isNil => levelsResult.value = hook.triggers
        /\ levelsResult.value.elems = <<>> =>
              (~hook.triggers.isNil /\ hook.triggers.elems = <<>>)

C6_Witness ==
    /\ levelsResult.called
    /\ hook.triggers.isNil
    /\ Len(levelsResult.value.elems) = 3

\* C7: Fire returns nil, whether a filter suppressed the entry, the client was
\* called and delivered, the client was called and failed, or the level
\* dispatches nothing.
C7_FireReturnsNil ==
    \A g \in Procs : pc[g] = "return" => ret[g] = [kind |-> "return", value |-> NilValue]

C7_Witness ==
    /\ pc[1] = "return"
    /\ Len(ClientCalls(1)) = 1
    /\ ~ClientCalls(1)[1].result
    /\ ret[1].kind = "return"

\* C8: Hook.ReportPanic run as the deferred call: with a panic p in flight it
\* makes exactly one CRIT error report and the goroutine goes on panicking
\* with p; with no panic in flight it makes no report and returns normally.
C8_ReportPanicRepanics ==
    \A g \in Procs :
        (pc[g] = "unwound" /\ inflight[g].deferred) =>
            /\ inflight[g].value # NilValue =>
                  /\ Len(trace[g]) = 1
                  /\ trace[g][1].ev = "ErrorWithLevel"
                  /\ trace[g][1].level = "CRIT"
                  /\ ret[g] = [kind |-> "panic", value |-> inflight[g].value]
            /\ inflight[g].value = NilValue =>
                  /\ trace[g] = <<>>
                  /\ ret[g] = [kind |-> "return", value |-> NilValue]

C8_Witness ==
    /\ pc[1] = "unwound"
    /\ inflight[1] = [value |-> S1, deferred |-> TRUE]
    /\ Len(trace[1]) = 1
    /\ ret[1].kind = "panic"

Conflict(g1, g2) ==
    \E a \in acc[g1], b \in acc[g2] : a[1] = b[1] /\ "w" \in {a[2], b[2]}

\* C9: Fire only reads the Hook, so no two Fire calls in progress at once have
\* accessed the same Hook field with one of them writing it.
C9_NoConflictingAccess ==
    \A g1, g2 \in Procs :
        (g1 # g2 /\ InFire(g1) /\ InFire(g2)) => ~Conflict(g1, g2)

\* frame i of the stack framesToSkip walks belongs to logrus
IsLogrusFrame(i) == i < Len(fstack) /\ fstack[i + 1] = "logrus"

\* C10: framesToSkip(k) returns, and its result is i + 1 for the smallest
\* i >= k + 1 whose frame is missing or is not logrus'; so n logrus frames at
\* k+1 .. k+n followed by another frame give k + n + 2.
C10_FramesToSkip ==
    /\ fresult = -1 => ENABLED CallFramesToSkip
    /\ fresult # -1 =>
          /\ \E i \in (fk + 1)..(Len(fstack) + fk + 1) :
                /\ ~IsLogrusFrame(i)
                /\ \A j \in (fk + 1)..(i - 1) : IsLogrusFrame(j)
                /\ fresult = i + 1
          /\ \A n \in 0..Len(fstack) :
                ((\A j \in (fk + 1)..(fk + n) : IsLogrusFrame(j))
                    /\ fk + n + 1 < Len(fstack)
                    /\ ~IsLogrusFrame(fk + n + 1))
                  => fresult = fk + n + 2

C10_Witness ==
    /\ fk = 2
    /\ Len(fstack) >= 7
    /\ \A j \in 3..5 : fstack[j + 1] = "logrus"
    /\ fstack[7] = "user"
    /\ fresult = 7

====
